---- MODULE Spec2Model ----
(***************************************************************************)
(* kubectl-who-can: the policy rule matcher, the pre-flight access check   *)
(* and the binding aggregation of WhoCan.Check, as state machines.         *)
(*                                                                         *)
(*   Spec         one run of the command against a cluster (RBAC content   *)
(*                varied)                                                  *)
(*   SpecAccess   the same run, with the namespace list and the answers of *)
(*                the self-subject-access-reviews varied                   *)
(*   SpecMatcher  matcher.matches applied to one PolicyRule                *)
(*   SpecRole     matcher.MatchesRole / MatchesClusterRole applied to a    *)
(*                role                                                     *)
(***************************************************************************)
EXTENDS Integers, Sequences, FiniteSets, TLC

VARIABLES
    args,                 \* positional arguments of the command line
    flags,                \* --subresource, --namespace, --all-namespaces
    clientConfig,         \* kubeconfig: the current context's namespace, and the reads of it
    cluster,              \* the API server's content, as the list/get calls deliver it
    action,               \* Action of the run
    pc,                   \* position of the command (RunE)
    calls,                \* API calls issued so far, in order
    checks,               \* CheckAPIAccess: checks still to run
    warnings,             \* CheckAPIAccess: warnings collected / returned
    gr,                   \* resolvedAction.gr
    roleNames,            \* Check: set of matched Role names
    clusterRoleNames,     \* Check: set of matched ClusterRole names
    roleBindings,         \* Check: returned RoleBindings
    clusterRoleBindings,  \* Check: returned ClusterRoleBindings
    err,                  \* error returned to RunE ("" is nil)
    history,              \* the contents the API server has had since the run began
    mRules,               \* matcher harness: Rules of the role under test
    mAction,              \* matcher harness: Action
    mGr,                  \* matcher harness: schema.GroupResource
    mCall,                \* matcher harness: method called ("" before the call)
    mResult               \* matcher harness: value returned

inputVars == <<args, flags, clientConfig>>
runVars == <<inputVars, cluster, action, pc, calls, checks, warnings, gr, roleNames,
             clusterRoleNames, roleBindings, clusterRoleBindings, err, history>>
matcherVars == <<mRules, mAction, mGr, mCall, mResult>>
vars == <<runVars, matcherVars>>

(***************************************************************************)
(* Bounds of the model                                                     *)
(***************************************************************************)
MaxLen == 2          \* entries of one list of a PolicyRule
MaxRules == 2        \* PolicyRules of a role in SpecRole
MaxBindings == 2     \* items delivered by one binding list call
MaxNamespaces == 2   \* items delivered by the namespace list call
MaxChanges == 2      \* writes of other clients during one Check

(***************************************************************************)
(* Constants of the program and of the RBAC API                            *)
(***************************************************************************)
RoleKind == "Role"
ClusterRoleKind == "ClusterRole"
VerbAll == "*"
ResourceAll == "*"
APIGroupAll == "*"
NamespaceAll == ""
NamespaceActive == "Active"

Range(s) == {s[i] : i \in 1..Len(s)}

(***************************************************************************)
(* Policy rule matcher                                                     *)
(***************************************************************************)
\* mutant: any API group of the rule is taken to match
matchesAPIGroup_anyGroup(rule, actionGroup) == Len(rule.APIGroups) > 0

matchesAPIGroup(rule, actionGroup) ==
    \E i \in 1..Len(rule.APIGroups) :
        rule.APIGroups[i] = APIGroupAll \/ rule.APIGroups[i] = actionGroup

\* mutant: a rule without verbs is taken to allow every verb
matchesVerb_emptyIsAny(rule, actionVerb) ==
    \/ Len(rule.Verbs) = 0
    \/ \E i \in 1..Len(rule.Verbs) :
          rule.Verbs[i] = VerbAll \/ rule.Verbs[i] = actionVerb

matchesVerb(rule, actionVerb) ==
    \E i \in 1..Len(rule.Verbs) :
        rule.Verbs[i] = VerbAll \/ rule.Verbs[i] = actionVerb

matchesResource(rule, actionResource) ==
    \E i \in 1..Len(rule.Resources) :
        rule.Resources[i] = ResourceAll \/ rule.Resources[i] = actionResource

\* mutant: an action without resource name matches every rule
matchesResourceName_broaderRule(rule, actionResourceName) ==
    IF actionResourceName = "" THEN TRUE
    ELSE IF Len(rule.ResourceNames) = 0 THEN TRUE
    ELSE \E i \in 1..Len(rule.ResourceNames) :
            rule.ResourceNames[i] = actionResourceName

\* mutant: only the first resource name of the rule is compared
matchesResourceName_firstOnly(rule, actionResourceName) ==
    IF Len(rule.ResourceNames) = 0 THEN TRUE
    ELSE rule.ResourceNames[1] = actionResourceName

matchesResourceName(rule, actionResourceName) ==
    IF actionResourceName = "" /\ Len(rule.ResourceNames) = 0 THEN TRUE
    ELSE IF Len(rule.ResourceNames) = 0 THEN TRUE
    ELSE \E i \in 1..Len(rule.ResourceNames) :
            rule.ResourceNames[i] = actionResourceName

\* mutant: the URL "*" of a rule matches every URL
matchesNonResourceURL_wildcard(rule, actionNonResourceURL) ==
    \E i \in 1..Len(rule.NonResourceURLs) :
        rule.NonResourceURLs[i] = "*" \/ rule.NonResourceURLs[i] = actionNonResourceURL

matchesNonResourceURL(rule, actionNonResourceURL) ==
    \E i \in 1..Len(rule.NonResourceURLs) :
        rule.NonResourceURLs[i] = actionNonResourceURL

\* mutant: the sub-resource is dropped
actionResource_withoutSubResource(act, g) == g.Resource

\* the resource string a rule is compared with: gr.Resource[/SubResource]
actionResource(act, g) ==
    IF act.SubResource # "" THEN g.Resource \o "/" \o act.SubResource
    ELSE g.Resource

matches(rule, act, g) ==
    IF act.NonResourceURL # ""
    THEN matchesVerb(rule, act.Verb) /\ matchesNonResourceURL(rule, act.NonResourceURL)
    ELSE /\ matchesVerb(rule, act.Verb)
         /\ matchesResource(rule, actionResource(act, g))
         /\ matchesAPIGroup(rule, g.Group)
         /\ matchesResourceName(rule, act.ResourceName)

\* index of the first rule of rules[from..] that matches, 0 when the loop ends
RECURSIVE firstMatch(_, _, _, _)
firstMatch(rules, act, g, from) ==
    IF from > Len(rules) THEN 0
    ELSE IF ~matches(rules[from], act, g) THEN firstMatch(rules, act, g, from + 1)
    ELSE from

\* mutant: the verb may be granted by one rule and the target by another
MatchesRole_acrossRules(rules, act, g) ==
    /\ \E i \in 1..Len(rules) : matchesVerb(rules[i], act.Verb)
    /\ \E j \in 1..Len(rules) : matches([rules[j] EXCEPT !.Verbs = <<VerbAll>>], act, g)

MatchesRole(rules, act, g) == firstMatch(rules, act, g, 1) # 0

MatchesClusterRole(rules, act, g) == firstMatch(rules, act, g, 1) # 0

(***************************************************************************)
(* The API server, as the client calls of the command see it               *)
(***************************************************************************)
TransportError == "transport error"

\* clientNamespace.List
ListNamespaces == cluster.Namespaces

\* mutant: the Roles of every namespace are listed, whatever ns is
ListRoles_everyNamespace(ns) == cluster.Roles

\* clientRBAC.Roles(ns).List; NamespaceAll lists the Roles of every namespace
ListRoles(ns) ==
    SelectSeq(cluster.Roles, LAMBDA r : ns = NamespaceAll \/ r.Namespace = ns)

\* clientRBAC.ClusterRoles().List
ListClusterRoles == cluster.ClusterRoles

\* clientRBAC.RoleBindings(ns).List
ListRoleBindings(ns) ==
    SelectSeq(cluster.RoleBindings, LAMBDA b : ns = NamespaceAll \/ b.Namespace = ns)

\* clientRBAC.ClusterRoleBindings().List
ListClusterRoleBindings == cluster.ClusterRoleBindings

\* the answer of a SelfSubjectAccessReview: Status.Allowed
Allowed(check) == check \notin cluster.Denied

\* mutant: the list calls are issued as deletions of the collection
ListCall_deleteCollection(resource, ns) == <<"deletecollection", resource, ns>>

\* the log entries of the API calls
ListCall(resource, ns) == <<"list", resource, ns>>
GetCall(resource, name) == <<"get", resource, name>>
ReviewCall(check) == <<"create", "selfsubjectaccessreviews", check[1], check[2], check[3]>>

(***************************************************************************)
(* accessChecker.IsAllowedTo                                               *)
(***************************************************************************)
\* mutant: a review answered with allowed=false is reported as an error
IsAllowedTo_deniedIsError(check, fails) ==
    IF fails THEN [allowed |-> FALSE, err |-> TransportError]
    ELSE IF ~Allowed(check) THEN [allowed |-> FALSE, err |-> "forbidden"]
    ELSE [allowed |-> TRUE, err |-> ""]

\* [allowed, err] of one probe; fails is the transport's outcome
IsAllowedTo(check, fails) ==
    IF fails THEN [allowed |-> FALSE, err |-> TransportError]
    ELSE [allowed |-> Allowed(check), err |-> ""]

(***************************************************************************)
(* namespaceValidator.Validate: the error it returns ("" is nil), given    *)
(* the outcome of the namespace get                                        *)
(***************************************************************************)
NamespaceNamed(name) ==
    {i \in 1..Len(cluster.Namespaces) : cluster.Namespaces[i].Name = name}

\* mutant: the not-found error does not quote the name
ValidateNamespace_unquoted(name, fails) ==
    IF name # NamespaceAll
    THEN IF fails THEN "getting namespace: " \o TransportError
         ELSE IF NamespaceNamed(name) = {} THEN name \o " not found"
         ELSE LET ns == cluster.Namespaces[CHOOSE i \in NamespaceNamed(name) : TRUE]
              IN  IF ns.Phase # NamespaceActive
                  THEN "invalid status: " \o ns.Phase
                  ELSE ""
    ELSE ""

\* mutant: the phase of the namespace is not looked at
ValidateNamespace_anyPhase(name, fails) ==
    IF name # NamespaceAll
    THEN IF fails THEN "getting namespace: " \o TransportError
         ELSE IF NamespaceNamed(name) = {} THEN "\"" \o name \o "\" not found"
         ELSE ""
    ELSE ""

ValidateNamespace(name, fails) ==
    IF name # NamespaceAll
    THEN IF fails THEN "getting namespace: " \o TransportError
         ELSE IF NamespaceNamed(name) = {} THEN "\"" \o name \o "\" not found"
         ELSE LET ns == cluster.Namespaces[CHOOSE i \in NamespaceNamed(name) : TRUE]
              IN  IF ns.Phase # NamespaceActive
                  THEN "invalid status: " \o ns.Phase
                  ELSE ""
    ELSE ""

(***************************************************************************)
(* resourceResolver.Resolve                                                *)
(***************************************************************************)
\* discovery: the APIResources of the preferred group versions
ServerResources ==
    << [Group |-> "", Name |-> "pods", ShortNames |-> <<"po">>,
        Verbs |-> <<"list", "create", "delete">>],
       [Group |-> "", Name |-> "pods/log", ShortNames |-> <<>>,
        Verbs |-> <<"get">>],
       [Group |-> "", Name |-> "services", ShortNames |-> <<"svc">>,
        Verbs |-> <<"list", "delete">>],
       [Group |-> "extensions", Name |-> "deployments", ShortNames |-> <<>>,
        Verbs |-> <<"list", "get">>],
       [Group |-> "extensions", Name |-> "deployments/scale", ShortNames |-> <<>>,
        Verbs |-> <<"update", "patch">>],
       [Group |-> "policy", Name |-> "podsecuritypolicies", ShortNames |-> <<>>,
        Verbs |-> <<"list", "get">>] >>

\* the index keys (plural and short names) under which res is found
indexKeys(res) == {res.Name} \cup Range(res.ShortNames)

\* lookup of a key in the index; the later entry wins, as in the map
indexResources(key) ==
    LET hits == {i \in 1..Len(ServerResources) : key \in indexKeys(ServerResources[i])}
    IN  IF hits = {} THEN <<>>
        ELSE <<ServerResources[CHOOSE i \in hits : \A j \in hits : j <= i]>>

\* mutant: the loop returns after the first verb
isVerbSupportedBy_firstVerb(verb, resource) ==
    Len(resource.Verbs) > 0 /\ resource.Verbs[1] = verb

isVerbSupportedBy(verb, resource) ==
    \E i \in 1..Len(resource.Verbs) : resource.Verbs[i] = verb

\* mutant: the sub-resource is left out of the name
noResourceType_withoutSubResource(resource, subResource) ==
    "the server doesn't have a resource type \"" \o resource \o "\""

noResourceType(resource, subResource) ==
    "the server doesn't have a resource type \"" \o
        (IF subResource # "" THEN resource \o "/" \o subResource ELSE resource) \o "\""

\* the REST mapper: the canonical GroupResource of a resource argument (short
\* name, plural, or plural.group), <<>> when the mapping fails
ResourceFor(resourceArg) ==
    CASE resourceArg \in {"pods", "po"} -> <<[Group |-> "", Resource |-> "pods"]>>
      [] resourceArg \in {"services", "svc"} -> <<[Group |-> "", Resource |-> "services"]>>
      [] resourceArg \in {"deployments", "deployments.extensions"} ->
            <<[Group |-> "extensions", Resource |-> "deployments"]>>
      [] resourceArg \in {"podsecuritypolicies", "psp"} ->
            <<[Group |-> "policy", Resource |-> "podsecuritypolicies"]>>
      [] resourceArg \in {"persistentvolumes", "pv"} ->
            <<[Group |-> "", Resource |-> "persistentvolumes"]>>
      [] OTHER -> <<>>

\* a list of verbs as %v prints it: [list create delete]
RECURSIVE joinVerbs(_, _)
joinVerbs(verbs, from) ==
    IF from > Len(verbs) THEN ""
    ELSE IF from = Len(verbs) THEN verbs[from]
    ELSE verbs[from] \o " " \o joinVerbs(verbs, from + 1)

verbNotSupported(plural, verb, verbs) ==
    "the \"" \o plural \o "\" resource does not support the \"" \o verb \o
    "\" verb, only [" \o joinVerbs(verbs, 1) \o "]"

\* mutant: the resource "*" is handed to the REST mapper like any other
Resolve_mapsWildcard(verb, resource, subResource) ==
    LET none == [Group |-> "", Resource |-> ""]
        gvr == ResourceFor(resource)
    IN  IF gvr = <<>>
        THEN [gr |-> none, err |-> noResourceType(resource, subResource)]
        ELSE LET plural == gvr[1].Resource
                 found == indexResources(IF subResource # ""
                                         THEN plural \o "/" \o subResource
                                         ELSE plural)
             IN  IF found = <<>>
                 THEN [gr |-> none, err |-> noResourceType(resource, subResource)]
                 ELSE IF \/ verb = VerbAll
                         \/ isVerbSupportedBy(verb, found[1])
                         \/ (verb = "use" /\ plural = "podsecuritypolicies")
                      THEN [gr |-> gvr[1], err |-> ""]
                      ELSE [gr |-> none,
                            err |-> verbNotSupported(plural, verb, found[1].Verbs)]

\* [gr, err] of Resolve(verb, resource, subResource)
Resolve(verb, resource, subResource) ==
    LET none == [Group |-> "", Resource |-> ""] IN
    IF resource = ResourceAll
    THEN [gr |-> [Group |-> "", Resource |-> ResourceAll], err |-> ""]
    ELSE LET gvr == ResourceFor(resource) IN
         IF gvr = <<>>
         THEN [gr |-> none, err |-> noResourceType(resource, subResource)]
         ELSE LET plural == gvr[1].Resource
                  found == indexResources(IF subResource # ""
                                          THEN plural \o "/" \o subResource
                                          ELSE plural)
              IN  IF found = <<>>
                  THEN [gr |-> none, err |-> noResourceType(resource, subResource)]
                  ELSE IF \/ verb = VerbAll
                          \/ isVerbSupportedBy(verb, found[1])
                          \/ (verb = "use" /\ plural = "podsecuritypolicies")
                       THEN [gr |-> gvr[1], err |-> ""]
                       ELSE [gr |-> none,
                             err |-> verbNotSupported(plural, verb, found[1].Verbs)]

(***************************************************************************)
(* ActionFrom. An argument is the sequence of its tokens, "/" being a      *)
(* token of its own; the string it stands for is their concatenation.      *)
(***************************************************************************)
RECURSIVE str(_, _)
str(tokens, from) ==
    IF from > Len(tokens) THEN "" ELSE tokens[from] \o str(tokens, from + 1)

\* mutant: an argument holding a "/" anywhere is taken for a URL
HasPrefix_anySlash(arg) == \E i \in 1..Len(arg) : arg[i] = "/"

\* strings.HasPrefix(arg, "/")
HasPrefix(arg) == Len(arg) > 0 /\ arg[1] = "/"

\* strings.SplitN(arg, "/", 2): the part before the first "/", and the rest if any
SplitN(arg) ==
    LET seps == {i \in 1..Len(arg) : arg[i] = "/"} IN
    IF seps = {} THEN <<str(arg, 1)>>
    ELSE LET first == CHOOSE i \in seps : \A j \in seps : i <= j
         IN  <<str(SubSeq(arg, 1, first - 1), 1), str(arg, first + 1)>>

\* the zero Action
NoAction ==
    [Verb |-> "", Resource |-> "", ResourceName |-> "", SubResource |-> "",
     NonResourceURL |-> "", Namespace |-> "", AllNamespaces |-> FALSE]

\* mutant: --namespace is read before --all-namespaces
ActionFrom_namespaceFirst(cc, fl, as) ==
    IF Len(as) < 2
    THEN [action |-> NoAction, reads |-> 0,
          err |-> "you must specify two or three arguments: verb, resource, and optional resourceName"]
    ELSE LET target == IF HasPrefix(as[2])
                       THEN [NoAction EXCEPT !.Verb = str(as[1], 1),
                                             !.NonResourceURL = str(as[2], 1)]
                       ELSE LET resourceTokens == SplitN(as[2]) IN
                            [NoAction EXCEPT !.Verb = str(as[1], 1),
                                             !.Resource = resourceTokens[1],
                                             !.ResourceName =
                                                 IF Len(resourceTokens) > 1
                                                 THEN resourceTokens[2] ELSE ""]
             flagged == [target EXCEPT !.SubResource = fl.subResource,
                                       !.AllNamespaces = fl.allNamespaces]
         IN  IF fl.namespace # ""
             THEN [action |-> [flagged EXCEPT !.Namespace = fl.namespace],
                   reads |-> 0, err |-> ""]
             ELSE IF fl.allNamespaces
             THEN [action |-> [flagged EXCEPT !.Namespace = NamespaceAll],
                   reads |-> 0, err |-> ""]
             ELSE [action |-> [flagged EXCEPT !.Namespace = cc.namespace],
                   reads |-> 1,
                   err |-> IF cc.err # ""
                           THEN "getting namespace from current context: " \o cc.err
                           ELSE ""]

\* [action, err] of ActionFrom(clientConfig, flags, args), and the number of
\* reads of the current context's namespace it makes
ActionFrom(cc, fl, as) ==
    IF Len(as) < 2
    THEN [action |-> NoAction, reads |-> 0,
          err |-> "you must specify two or three arguments: verb, resource, and optional resourceName"]
    ELSE LET target == IF HasPrefix(as[2])
                       THEN [NoAction EXCEPT !.Verb = str(as[1], 1),
                                             !.NonResourceURL = str(as[2], 1)]
                       ELSE LET resourceTokens == SplitN(as[2]) IN
                            [NoAction EXCEPT !.Verb = str(as[1], 1),
                                             !.Resource = resourceTokens[1],
                                             !.ResourceName =
                                                 IF Len(resourceTokens) > 1
                                                 THEN resourceTokens[2] ELSE ""]
             flagged == [target EXCEPT !.SubResource = fl.subResource,
                                       !.AllNamespaces = fl.allNamespaces]
         IN  IF fl.allNamespaces
             THEN [action |-> [flagged EXCEPT !.Namespace = NamespaceAll],
                   reads |-> 0, err |-> ""]
             ELSE IF fl.namespace # ""
             THEN [action |-> [flagged EXCEPT !.Namespace = fl.namespace],
                   reads |-> 0, err |-> ""]
             ELSE [action |-> [flagged EXCEPT !.Namespace = cc.namespace],
                   reads |-> 1,
                   err |-> IF cc.err # ""
                           THEN "getting namespace from current context: " \o cc.err
                           ELSE ""]

\* RunE up to the call of CheckAPIAccess: an error of ActionFrom ends the command
RunE ==
    /\ pc = "ActionFrom"
    /\ LET r == ActionFrom(clientConfig, flags, args) IN
       /\ action' = r.action
       /\ clientConfig' = [clientConfig EXCEPT !.reads = @ + r.reads]
       /\ IF r.err # ""
          THEN err' = r.err /\ pc' = "failed"
          ELSE pc' = "CheckAPIAccess" /\ UNCHANGED err
    /\ UNCHANGED <<args, flags, cluster, calls, checks, warnings, gr, roleNames,
                   clusterRoleNames, roleBindings, clusterRoleBindings, matcherVars,
                   history>>

(***************************************************************************)
(* WhoCan.CheckAPIAccess                                                   *)
(***************************************************************************)
\* mutant: the rolebindings of a namespace are checked before its roles
namespaceChecks_swapped(ns) == << <<"list", "rolebindings", ns>>, <<"list", "roles", ns>> >>

\* the two checks of one namespace
namespaceChecks(ns) == << <<"list", "roles", ns>>, <<"list", "rolebindings", ns>> >>

\* the checks appended while ranging over nsList.Items[from..]
RECURSIVE checksOfNamespaces(_, _)
checksOfNamespaces(items, from) ==
    IF from > Len(items) THEN <<>>
    ELSE namespaceChecks(items[from].Name) \o checksOfNamespaces(items, from + 1)

warningOf(check) ==
    IF check[3] = ""
    THEN "The user is not allowed to " \o check[1] \o " " \o check[2]
    ELSE "The user is not allowed to " \o check[1] \o " " \o check[2] \o
         " in the " \o check[3] \o " namespace"

\* "Determine which checks need to be executed": for all namespaces the
\* namespaces are listed, and a failure of that call ends the command
CheckAPIAccess ==
    /\ pc = "CheckAPIAccess"
    /\ IF action.Namespace = ""
       THEN \E fails \in BOOLEAN :
              /\ calls' = Append(calls, ListCall("namespaces", ""))
              /\ IF fails
                 THEN /\ err' = "listing namespaces: " \o TransportError
                      /\ pc' = "failed"
                      /\ UNCHANGED checks
                 ELSE /\ checks' = << <<"list", "namespaces", "">> >> \o
                                   checksOfNamespaces(ListNamespaces, 1)
                      /\ pc' = "IsAllowedTo"
                      /\ UNCHANGED err
       ELSE /\ checks' = namespaceChecks(action.Namespace)
            /\ pc' = "IsAllowedTo"
            /\ UNCHANGED <<calls, err>>
    /\ UNCHANGED <<cluster, action, warnings, gr, roleNames, clusterRoleNames,
                   roleBindings, clusterRoleBindings, matcherVars, inputVars, history>>

\* one turn of "Actually run the checks and collect warnings"
RunCheck ==
    /\ pc = "IsAllowedTo"
    /\ checks # <<>>
    /\ \E fails \in BOOLEAN :
         LET check == Head(checks)
             res == IsAllowedTo(check, fails)
         IN  /\ calls' = Append(calls, ReviewCall(check))
             /\ IF res.err # ""
                THEN /\ err' = res.err
                     /\ warnings' = <<>>
                     /\ pc' = "failed"
                     /\ UNCHANGED checks
                ELSE /\ warnings' = IF ~res.allowed
                                    THEN Append(warnings, warningOf(check))
                                    ELSE warnings
                     /\ checks' = Tail(checks)
                     /\ UNCHANGED <<err, pc>>
    /\ UNCHANGED <<cluster, action, gr, roleNames, clusterRoleNames,
                   roleBindings, clusterRoleBindings, matcherVars, inputVars, history>>

\* CheckAPIAccess returns its warnings; RunE prints them and calls Check
ReturnWarnings ==
    /\ pc = "IsAllowedTo"
    /\ checks = <<>>
    /\ pc' = "validate"
    /\ UNCHANGED <<cluster, action, calls, checks, warnings, gr, roleNames,
                   clusterRoleNames, roleBindings, clusterRoleBindings, err,
                   matcherVars, inputVars, history>>

(***************************************************************************)
(* WhoCan.Check                                                            *)
(***************************************************************************)
\* WhoCan.validate, then the "validation: " wrap of Check
validate ==
    /\ pc = "validate"
    /\ IF action.NonResourceURL # "" /\ action.SubResource # ""
       THEN /\ err' = "validation: " \o "--subresource cannot be used with NONRESOURCEURL"
            /\ pc' = "done"
            /\ UNCHANGED calls
       ELSE \E fails \in BOOLEAN :
              LET e == ValidateNamespace(action.Namespace, fails) IN
              /\ action.Namespace = NamespaceAll => ~fails
              /\ calls' = IF action.Namespace # NamespaceAll
                          THEN Append(calls, GetCall("namespaces", action.Namespace))
                          ELSE calls
              /\ IF e # ""
                 THEN /\ err' = "validation: " \o "validating namespace: " \o e
                      /\ pc' = "done"
                 ELSE /\ pc' = "Resolve"
                      /\ UNCHANGED err
    /\ UNCHANGED <<cluster, action, checks, warnings, gr, roleNames, clusterRoleNames,
                   roleBindings, clusterRoleBindings, matcherVars, inputVars, history>>

\* mutant: the resource is resolved for every Action
resolve_always ==
    /\ pc = "Resolve"
    /\ LET r == Resolve(action.Verb, action.Resource, action.SubResource) IN
       /\ calls' = Append(calls, GetCall("discovery", ""))
       /\ IF r.err # ""
          THEN /\ err' = "resolving resource: " \o r.err
               /\ pc' = "done"
               /\ UNCHANGED gr
          ELSE /\ gr' = r.gr
               /\ pc' = "getRolesFor"
               /\ UNCHANGED err
    /\ UNCHANGED <<cluster, action, checks, warnings, roleNames, clusterRoleNames,
                   roleBindings, clusterRoleBindings, matcherVars, inputVars, history>>

\* the resource is resolved only when action.Resource is set
resolve ==
    /\ pc = "Resolve"
    /\ IF action.Resource # ""
       THEN LET r == Resolve(action.Verb, action.Resource, action.SubResource) IN
            /\ calls' = Append(calls, GetCall("discovery", ""))
            /\ IF r.err # ""
               THEN /\ err' = "resolving resource: " \o r.err
                    /\ pc' = "done"
                    /\ UNCHANGED gr
               ELSE /\ gr' = r.gr
                    /\ pc' = "getRolesFor"
                    /\ UNCHANGED err
       ELSE /\ pc' = "getRolesFor"
            /\ UNCHANGED <<calls, gr, err>>
    /\ UNCHANGED <<cluster, action, checks, warnings, roleNames, clusterRoleNames,
                   roleBindings, clusterRoleBindings, matcherVars, inputVars, history>>

\* mutant: the name of every listed Role is taken
matchedRoles_everyRole(items, act, g) == {items[i].Name : i \in 1..Len(items)}

\* names of the listed items whose rules match
matchedRoles(items, act, g) ==
    {items[i].Name : i \in {j \in 1..Len(items) : MatchesRole(items[j].Rules, act, g)}}

\* mutant: a name already among the matched Roles is not taken again
matchedClusterRoles_notARole(items, act, g) ==
    {items[i].Name : i \in {j \in 1..Len(items) : MatchesClusterRole(items[j].Rules, act, g)}}
        \ roleNames

matchedClusterRoles(items, act, g) ==
    {items[i].Name : i \in {j \in 1..Len(items) : MatchesClusterRole(items[j].Rules, act, g)}}

getRolesFor ==
    /\ pc = "getRolesFor"
    /\ calls' = Append(calls, ListCall("roles", action.Namespace))
    /\ \E fails \in BOOLEAN :
         IF fails
         THEN /\ err' = "getting Roles: " \o TransportError
              /\ roleBindings' = <<>>
              /\ clusterRoleBindings' = <<>>
              /\ pc' = "done"
              /\ UNCHANGED roleNames
         ELSE /\ roleNames' = matchedRoles(ListRoles(action.Namespace), action, gr)
              /\ pc' = "getClusterRolesFor"
              /\ UNCHANGED <<err, roleBindings, clusterRoleBindings>>
    /\ UNCHANGED <<cluster, action, checks, warnings, gr, clusterRoleNames, matcherVars, inputVars, history>>

getClusterRolesFor ==
    /\ pc = "getClusterRolesFor"
    /\ calls' = Append(calls, ListCall("clusterroles", ""))
    /\ \E fails \in BOOLEAN :
         IF fails
         THEN /\ err' = "getting ClusterRoles: " \o TransportError
              /\ roleBindings' = <<>>
              /\ clusterRoleBindings' = <<>>
              /\ pc' = "done"
              /\ UNCHANGED clusterRoleNames
         ELSE /\ clusterRoleNames' = matchedClusterRoles(ListClusterRoles, action, gr)
              /\ pc' = "getRoleBindings"
              /\ UNCHANGED <<err, roleBindings, clusterRoleBindings>>
    /\ UNCHANGED <<cluster, action, checks, warnings, gr, roleNames, matcherVars, inputVars, history>>

\* mutant: the RoleRef's name is looked up in both sets, whatever its kind
keepsRoleBinding_eitherSet(roleBinding, rNames, crNames) ==
    roleBinding.RoleRef.Name \in (rNames \cup crNames)

\* mutant: every kind but Role is handled as ClusterRole
keepsRoleBinding_anyKind(roleBinding, rNames, crNames) ==
    IF roleBinding.RoleRef.Kind = RoleKind
    THEN roleBinding.RoleRef.Name \in rNames
    ELSE roleBinding.RoleRef.Name \in crNames

\* the filter of getRoleBindings on one listed RoleBinding
keepsRoleBinding(roleBinding, rNames, crNames) ==
    IF roleBinding.RoleRef.Kind = RoleKind
    THEN roleBinding.RoleRef.Name \in rNames
    ELSE IF roleBinding.RoleRef.Kind = ClusterRoleKind
         THEN roleBinding.RoleRef.Name \in crNames
         ELSE FALSE

\* mutant: the names of the matched Roles are accepted too
keepsClusterRoleBinding_eitherSet(roleBinding, crNames) ==
    roleBinding.RoleRef.Name \in (crNames \cup roleNames)

\* the filter of getClusterRoleBindings on one listed ClusterRoleBinding
keepsClusterRoleBinding(roleBinding, crNames) ==
    roleBinding.RoleRef.Name \in crNames

\* mutant: the RoleBindings are listed for all namespaces too
skipsRoleBindings_never(act) == FALSE

\* mutant: the RoleBindings are not listed for a non-resource URL either
skipsRoleBindings_forURL(act) == act.Namespace = NamespaceAll \/ act.NonResourceURL # ""

\* whether getRoleBindings returns before listing
skipsRoleBindings(act) == act.Namespace = NamespaceAll

getRoleBindings ==
    /\ pc = "getRoleBindings"
    /\ IF skipsRoleBindings(action)
       THEN /\ pc' = "getClusterRoleBindings"
            /\ UNCHANGED <<calls, roleBindings, err>>
       ELSE /\ calls' = Append(calls, ListCall("rolebindings", action.Namespace))
            /\ \E fails \in BOOLEAN :
                 IF fails
                 THEN /\ err' = "getting RoleBindings: " \o TransportError
                      /\ pc' = "done"
                      /\ UNCHANGED roleBindings
                 ELSE /\ roleBindings' =
                            SelectSeq(ListRoleBindings(action.Namespace),
                                      LAMBDA b : keepsRoleBinding(b, roleNames,
                                                                  clusterRoleNames))
                      /\ pc' = "getClusterRoleBindings"
                      /\ UNCHANGED err
    /\ UNCHANGED <<cluster, action, checks, warnings, gr, roleNames, clusterRoleNames,
                   clusterRoleBindings, matcherVars, inputVars, history>>

getClusterRoleBindings ==
    /\ pc = "getClusterRoleBindings"
    /\ calls' = Append(calls, ListCall("clusterrolebindings", ""))
    /\ \E fails \in BOOLEAN :
         IF fails
         THEN /\ err' = "getting ClusterRoleBindings: " \o TransportError
              /\ UNCHANGED clusterRoleBindings
         ELSE /\ clusterRoleBindings' =
                    SelectSeq(ListClusterRoleBindings,
                              LAMBDA b : keepsClusterRoleBinding(b, clusterRoleNames))
              /\ UNCHANGED err
    /\ pc' = "done"
    /\ UNCHANGED <<cluster, action, checks, warnings, gr, roleNames, clusterRoleNames,
                   roleBindings, matcherVars, inputVars, history>>

\* Printer.PrintChecks: whether the section of the RoleBindings is printed
printsRoleBindings(act) == act.Resource # ""

Next ==
    \/ CheckAPIAccess
    \/ RunCheck
    \/ ReturnWarnings
    \/ validate
    \/ resolve
    \/ getRolesFor
    \/ getClusterRolesFor
    \/ getRoleBindings
    \/ getClusterRoleBindings

\* the command, from its command line
NextCommand == RunE \/ Next

\* one call of Resolve, as Check makes it
NextResolve == resolve

(***************************************************************************)
(* Matcher harness: one call of matches / MatchesRole / MatchesClusterRole *)
(***************************************************************************)
CallMatches ==
    /\ mCall = ""
    /\ Len(mRules) = 1
    /\ mCall' = "matches"
    /\ mResult' = matches(mRules[1], mAction, mGr)
    /\ UNCHANGED <<mRules, mAction, mGr, runVars>>

CallMatchesRole ==
    /\ mCall = ""
    /\ mCall' = "MatchesRole"
    /\ mResult' = MatchesRole(mRules, mAction, mGr)
    /\ UNCHANGED <<mRules, mAction, mGr, runVars>>

CallMatchesClusterRole ==
    /\ mCall = ""
    /\ mCall' = "MatchesClusterRole"
    /\ mResult' = MatchesClusterRole(mRules, mAction, mGr)
    /\ UNCHANGED <<mRules, mAction, mGr, runVars>>

NextMatcher == CallMatches

NextRole == CallMatchesRole \/ CallMatchesClusterRole

(***************************************************************************)
(* Inputs                                                                  *)
(***************************************************************************)
\* the sequences of at most n distinct elements of S
DistinctSeqs(S, n) ==
    {q \in UNION {[1..k -> S] : k \in 0..n} :
        \A i, j \in 1..Len(q) : i # j => q[i] # q[j]}

\* the sequences of at most n elements of S
SeqsUpTo(S, n) == UNION {[1..k -> S] : k \in 0..n}

\* the elements of alphabet at the indexes I, in the alphabet's order
RECURSIVE pick(_, _, _)
pick(alphabet, I, from) ==
    IF from > Len(alphabet) THEN <<>>
    ELSE IF from \in I THEN <<alphabet[from]>> \o pick(alphabet, I, from + 1)
    ELSE pick(alphabet, I, from + 1)

\* the lists of at most MaxLen distinct entries of alphabet
Lists(alphabet) ==
    {pick(alphabet, I, 1) :
        I \in {J \in SUBSET (1..Len(alphabet)) : Cardinality(J) <= MaxLen}}

PolicyRule(verbs, groups, resources, names, urls) ==
    [Verbs |-> verbs, APIGroups |-> groups, Resources |-> resources,
     ResourceNames |-> names, NonResourceURLs |-> urls]

MkAction(verb, resource, name, sub, url, ns) ==
    [Verb |-> verb, Resource |-> resource, ResourceName |-> name, SubResource |-> sub,
     NonResourceURL |-> url, Namespace |-> ns, AllNamespaces |-> (ns = "")]

NoGR == [Group |-> "", Resource |-> ""]

\* the rules matches is applied to in SpecMatcher
RuleDomain ==
    {PolicyRule(v, g, r, n, u) :
        v \in Lists(<<"get", "list", "*">>),
        g \in Lists(<<"", "apps", "*">>),
        r \in Lists(<<"pods", "pods/log", "*">>),
        n \in Lists(<<"", "x">>),
        u \in Lists(<<"/logs", "/logs/*", "*">>)}

\* the (Action, GroupResource) pairs of the matcher harness
MatcherActions ==
    {<<MkAction(v, "pods", n, s, "", "n1"), [Group |-> g, Resource |-> "pods"]>> :
        v \in {"get", "list"}, n \in {"", "x", "y"}, s \in {"", "log"},
        g \in {"", "apps"}}
    \cup
    {<<MkAction(v, "", "", "", u, "n1"), NoGR>> :
        v \in {"get", "list"}, u \in {"/logs", "/logs/x"}}

\* the rules the roles of SpecRole and of the cluster are made of
RuleGetPods == PolicyRule(<<"get">>, <<"">>, <<"pods">>, <<>>, <<>>)
RuleListPods == PolicyRule(<<"list">>, <<"">>, <<"pods">>, <<>>, <<>>)
RuleGetServices == PolicyRule(<<"get">>, <<"">>, <<"services">>, <<>>, <<>>)
RuleGetLogs == PolicyRule(<<"get">>, <<>>, <<>>, <<>>, <<"/logs">>)
RuleCatalogue == {RuleGetPods, RuleListPods, RuleGetServices, RuleGetLogs}

RoleActions ==
    {<<MkAction(v, "pods", "", "", "", "n1"), [Group |-> "", Resource |-> "pods"]>> :
        v \in {"get", "list"}}
    \cup {<<MkAction("get", "", "", "", "/logs", "n1"), NoGR>>}

\* no command line: the run starts from a given Action
IdleInput ==
    /\ args = <<>>
    /\ flags = [subResource |-> "", namespace |-> "", allNamespaces |-> FALSE]
    /\ clientConfig = [namespace |-> "", err |-> "", reads |-> 0]

IdleRun ==
    /\ IdleInput
    /\ cluster = [Namespaces |-> <<>>, Roles |-> <<>>, ClusterRoles |-> <<>>,
                  RoleBindings |-> <<>>, ClusterRoleBindings |-> <<>>, Denied |-> {}]
    /\ action = MkAction("", "", "", "", "", "")
    /\ pc = "idle"
    /\ history = <<>>
    /\ calls = <<>>
    /\ checks = <<>>
    /\ warnings = <<>>
    /\ gr = NoGR
    /\ roleNames = {}
    /\ clusterRoleNames = {}
    /\ roleBindings = <<>>
    /\ clusterRoleBindings = <<>>
    /\ err = ""

IdleMatcher ==
    /\ mRules = <<>>
    /\ mAction = MkAction("", "", "", "", "", "")
    /\ mGr = NoGR
    /\ mCall = "idle"
    /\ mResult = FALSE

InitMatcher ==
    /\ IdleRun
    /\ mRules \in {<<r>> : r \in RuleDomain}
    /\ \E a \in MatcherActions : mAction = a[1] /\ mGr = a[2]
    /\ mCall = ""
    /\ mResult = FALSE

InitRole ==
    /\ IdleRun
    /\ mRules \in SeqsUpTo(RuleCatalogue, MaxRules)
    /\ \E a \in RoleActions : mAction = a[1] /\ mGr = a[2]
    /\ mCall = ""
    /\ mResult = FALSE

SpecMatcher == InitMatcher /\ [][NextMatcher]_vars

SpecRole == InitRole /\ [][NextRole]_vars

(***************************************************************************)
(* Clusters and Actions of the runs                                        *)
(***************************************************************************)
Namespace(name, phase) == [Name |-> name, Phase |-> phase]
Role(ns, name, rules) == [Namespace |-> ns, Name |-> name, Rules |-> rules]
ClusterRole(name, rules) == [Name |-> name, Rules |-> rules]
RoleRef(kind, name) == [Kind |-> kind, Name |-> name]
RoleBinding(ns, name, kind, ref) ==
    [Namespace |-> ns, Name |-> name, RoleRef |-> RoleRef(kind, ref)]
ClusterRoleBinding(name, kind, ref) ==
    [Name |-> name, RoleRef |-> RoleRef(kind, ref)]

\* the Rules a role of the cluster may carry
RuleSets == {<<RuleListPods>>, <<RuleGetPods, RuleGetLogs>>}

\* Role a of n1 and ClusterRole a are each absent or carry one of RuleSets;
\* Role b of n2 grants both actions
RolesOfCluster ==
    {q \o <<Role("n2", "b", <<RuleListPods, RuleGetLogs>>)>> :
        q \in {<<>>} \cup {<<Role("n1", "a", rs)>> : rs \in RuleSets}}

ClusterRolesOfCluster ==
    {<<>>} \cup {<<ClusterRole("a", rs)>> : rs \in RuleSets}

\* the RoleBindings of n1 that may exist, and the one of n2 that always does
RoleBindingCatalogue ==
    {RoleBinding("n1", "rb-z", RoleKind, "a"),
     RoleBinding("n1", "rb-y", ClusterRoleKind, "a"),
     RoleBinding("n1", "rb-x", "Group", "a"),
     RoleBinding("n1", "rb-w", RoleKind, "b")}

RoleBindingsOfCluster ==
    {<<RoleBinding("n2", "rb-v", RoleKind, "b")>> \o q :
        q \in DistinctSeqs(RoleBindingCatalogue, MaxBindings)}

ClusterRoleBindingCatalogue ==
    {ClusterRoleBinding("crb-z", ClusterRoleKind, "a"),
     ClusterRoleBinding("crb-y", RoleKind, "a"),
     ClusterRoleBinding("crb-x", ClusterRoleKind, "b")}

ClusterRoleBindingsOfCluster ==
    DistinctSeqs(ClusterRoleBindingCatalogue, MaxBindings)

TwoNamespaces == <<Namespace("n1", NamespaceActive), Namespace("n2", NamespaceActive)>>

RunActions ==
    {MkAction("list", "pods", "", "", "", "n1"),
     MkAction("list", "pods", "", "", "", ""),
     MkAction("get", "", "", "", "/logs", "n1")}

\* the results and locals of CheckAPIAccess and Check before they run
InitLocals ==
    /\ calls = <<>>
    /\ checks = <<>>
    /\ warnings = <<>>
    /\ gr = NoGR
    /\ roleNames = {}
    /\ clusterRoleNames = {}
    /\ roleBindings = <<>>
    /\ clusterRoleBindings = <<>>
    /\ err = ""
    /\ history = <<cluster>>
    /\ IdleMatcher

InitRun ==
    /\ IdleInput
    /\ pc = "CheckAPIAccess"
    /\ InitLocals

Init ==
    /\ action \in RunActions
    /\ cluster \in
         [Namespaces : {TwoNamespaces},
          Roles : RolesOfCluster,
          ClusterRoles : ClusterRolesOfCluster,
          RoleBindings : RoleBindingsOfCluster,
          ClusterRoleBindings : ClusterRoleBindingsOfCluster,
          Denied : {{}, {<<"list", "rolebindings", "n1">>}}]
    /\ InitRun

\* the checks CheckAPIAccess can make of the namespaces n1, n2, n3
AllChecks ==
    {<<"list", "namespaces", "">>} \cup
    {<<"list", r, n>> : r \in {"roles", "rolebindings"}, n \in {"n1", "n2", "n3"}}

InitAccess ==
    /\ action \in {MkAction("list", "pods", "", "", "", "n1"),
                   MkAction("list", "pods", "", "", "", "")}
    /\ cluster \in
         [Namespaces : {[i \in 1..Len(q) |-> Namespace(q[i], NamespaceActive)] :
                           q \in DistinctSeqs({"n1", "n2", "n3"}, MaxNamespaces)},
          Roles : {<<>>},
          ClusterRoles : {<<ClusterRole("a", <<RuleListPods>>)>>},
          RoleBindings : {<<>>},
          ClusterRoleBindings : {<<ClusterRoleBinding("crb-z", ClusterRoleKind, "a")>>},
          Denied : SUBSET AllChecks]
    /\ InitRun

\* the command lines of SpecCommand
CommandArgs ==
    {<<>>,
     << <<"list">> >>,
     << <<"list">>, <<"pods">> >>,
     << <<"get">>, <<"pods">> >>,
     << <<"list">>, <<"pods", "/", "x">> >>,
     << <<"list">>, <<"pods", "/", "x", "/", "y">> >>,
     << <<"list">>, <<"pods">>, <<"x">> >>,
     << <<"list">>, <<"bees">> >>,
     << <<"get">>, <<"/", "logs">> >>}

\* n1 is active, n2 is terminating, n3 does not exist
CommandNamespaces == <<Namespace("n1", NamespaceActive), Namespace("n2", "Terminating")>>

InitCommand ==
    /\ args \in CommandArgs
    /\ flags \in [subResource : {"", "log"}, namespace : {"", "n1", "n2", "n3"},
                  allNamespaces : BOOLEAN]
    /\ clientConfig \in {[namespace |-> "n1", err |-> "", reads |-> 0],
                         [namespace |-> "", err |-> "cannot open context", reads |-> 0]}
    /\ cluster \in
         [Namespaces : {CommandNamespaces},
          Roles : {<<Role("n1", "a", <<RuleListPods, RuleGetLogs>>)>>},
          ClusterRoles : {<<ClusterRole("a", <<RuleListPods>>)>>},
          RoleBindings : {<<RoleBinding("n1", "rb-z", RoleKind, "a")>>},
          ClusterRoleBindings : {<<ClusterRoleBinding("crb-z", ClusterRoleKind, "a")>>},
          Denied : {{}, {<<"list", "roles", "n1">>}}]
    /\ action = NoAction
    /\ pc = "ActionFrom"
    /\ InitLocals

\* the arguments of Resolve in SpecResolve
ResolveActions ==
    {MkAction(v, r, "", s, "", "n1") :
        v \in {"list", "get", "create", "update", "eat", "cook", "use", "*"},
        r \in {"", "pods", "po", "services", "deployments", "deployments.extensions",
               "podsecuritypolicies", "psp", "pv", "bees", "*"},
        s \in {"", "log", "logz", "scale"}}

InitResolve ==
    /\ IdleInput
    /\ cluster = [Namespaces |-> <<>>, Roles |-> <<>>, ClusterRoles |-> <<>>,
                  RoleBindings |-> <<>>, ClusterRoleBindings |-> <<>>, Denied |-> {}]
    /\ action \in ResolveActions
    /\ pc = "Resolve"
    /\ InitLocals

Spec == Init /\ [][Next]_vars

SpecCommand == InitCommand /\ [][NextCommand]_vars

SpecResolve == InitResolve /\ [][NextResolve]_vars

\* the contents one write of another client can turn cl into: the Role a of
\* n1, the ClusterRole a, the RoleBindings or the ClusterRoleBindings are
\* created, updated or deleted
Changes(cl) ==
    ({[cl EXCEPT !.Roles = q] :
         q \in {<<>>} \cup {<<[Namespace |-> "n1", Name |-> "a", Rules |-> <<r>>]>> :
                               r \in {PolicyRule(<<v>>, <<"">>, <<"pods">>, <<>>, <<>>) :
                                         v \in {"list", "get"}}}}
     \cup
     {[cl EXCEPT !.ClusterRoles = q] :
         q \in {<<>>} \cup {<<[Name |-> "a", Rules |-> <<r>>]>> :
                               r \in {PolicyRule(<<v>>, <<"">>, <<"pods">>, <<>>, <<>>) :
                                         v \in {"list", "get"}}}}
     \cup
     {[cl EXCEPT !.RoleBindings = q] :
         q \in {<<>>, <<[Namespace |-> "n1", Name |-> "rb-z",
                         RoleRef |-> [Kind |-> RoleKind, Name |-> "a"]]>>}}
     \cup
     {[cl EXCEPT !.ClusterRoleBindings = q] :
         q \in {<<>>, <<[Name |-> "crb-z",
                         RoleRef |-> [Kind |-> ClusterRoleKind, Name |-> "a"]]>>}})
    \ {cl}

\* a write of another client between two list calls of Check
OtherClient ==
    /\ pc \in {"getClusterRolesFor", "getRoleBindings", "getClusterRoleBindings"}
    /\ Len(history) <= MaxChanges
    /\ \E c \in Changes(cluster) : cluster' = c
    /\ history' = Append(history, cluster')
    /\ UNCHANGED <<action, pc, calls, checks, warnings, gr, roleNames, clusterRoleNames,
                   roleBindings, clusterRoleBindings, err, matcherVars, inputVars>>

\* the command on a cluster other clients write to
NextConcurrent == OtherClient \/ Next

\* list pods in n1, on a cluster that holds any of the objects other clients
\* write
InitConcurrent ==
    /\ action = MkAction("list", "pods", "", "", "", "n1")
    /\ \E c \in Changes([Namespaces |-> TwoNamespaces, Roles |-> <<>>,
                          ClusterRoles |-> <<>>, RoleBindings |-> <<>>,
                          ClusterRoleBindings |-> <<>>, Denied |-> {}]) :
          cluster \in {c} \cup Changes(c)
    /\ InitRun

SpecConcurrent == InitConcurrent /\ [][NextConcurrent]_vars

SpecAccess == InitAccess /\ [][Next]_vars

(***************************************************************************)
(* Properties of WhoCan.Check                                              *)
(***************************************************************************)
\* Check has returned without error
CheckReturned == pc = "done" /\ err = ""

\* the rules grant the action of the run, rule by rule
Grants(rules) == \E i \in 1..Len(rules) : matches(rules[i], action, gr)

GrantingRole(ns, name) ==
    \E r \in Range(cluster.Roles) : r.Namespace = ns /\ r.Name = name /\ Grants(r.Rules)

GrantingClusterRole(name) ==
    \E r \in Range(cluster.ClusterRoles) : r.Name = name /\ Grants(r.Rules)

NoDuplicates(q) == \A i, j \in 1..Len(q) : q[i] = q[j] => i = j

\* C1: for an action with a non-empty namespace N and a run in which every API
\* call succeeds, Check returns exactly the ClusterRoleBindings whose RoleRef
\* names a ClusterRole with a rule matching the action, and exactly the
\* RoleBindings of N whose RoleRef names a Role of N, or a ClusterRole, with a
\* rule matching the action, each once.
C1_CheckReturnsGrantingBindings ==
    (CheckReturned /\ action.Namespace # "") =>
        /\ Range(clusterRoleBindings) =
              {b \in Range(cluster.ClusterRoleBindings) :
                  GrantingClusterRole(b.RoleRef.Name)}
        /\ Range(roleBindings) =
              {b \in Range(cluster.RoleBindings) :
                  /\ b.Namespace = action.Namespace
                  /\ \/ b.RoleRef.Kind = RoleKind /\
                        GrantingRole(action.Namespace, b.RoleRef.Name)
                     \/ b.RoleRef.Kind = ClusterRoleKind /\
                        GrantingClusterRole(b.RoleRef.Name)}
        /\ NoDuplicates(roleBindings)
        /\ NoDuplicates(clusterRoleBindings)

\* a run with namespace n1 that returned bindings of both kinds and left a
\* listed RoleBinding of n1 out
C1_Witness ==
    /\ CheckReturned
    /\ action.Namespace = "n1"
    /\ Len(roleBindings) = 1
    /\ Len(ListRoleBindings("n1")) = 2
    /\ Len(clusterRoleBindings) = 1
    /\ Len(cluster.ClusterRoleBindings) = 2

\* C2: getRoleBindings retains a RoleBinding of kind Role only if its
\* RoleRef.name is in the matched Role names, one of kind ClusterRole only if
\* its name is in the matched ClusterRole names, and none of another kind.
C2_RoleBindingsFilteredByKind ==
    \A b \in Range(roleBindings) :
        \/ /\ b.RoleRef.Kind = RoleKind
           /\ b.RoleRef.Name \in roleNames
           /\ GrantingRole(action.Namespace, b.RoleRef.Name)
        \/ /\ b.RoleRef.Kind = ClusterRoleKind
           /\ b.RoleRef.Name \in clusterRoleNames
           /\ GrantingClusterRole(b.RoleRef.Name)

\* Role a and ClusterRole a share the name, only the Role matches, and of the
\* two listed RoleBindings of n1 the one referring to the ClusterRole is dropped
C2_Witness ==
    /\ CheckReturned
    /\ "a" \in roleNames
    /\ "a" \notin clusterRoleNames
    /\ \E r \in Range(cluster.ClusterRoles) : r.Name = "a"
    /\ ListRoleBindings("n1") = <<RoleBinding("n1", "rb-y", ClusterRoleKind, "a"),
                                  RoleBinding("n1", "rb-z", RoleKind, "a")>>
    /\ roleBindings = <<RoleBinding("n1", "rb-z", RoleKind, "a")>>

\* C3: for an action with an empty namespace the roleBindings of Check are
\* empty and no RoleBinding list call is issued.
C3_AllNamespacesNoRoleBindings ==
    action.Namespace = "" =>
        /\ roleBindings = <<>>
        /\ \A i \in 1..Len(calls) :
              ~(calls[i][1] = "list" /\ calls[i][2] = "rolebindings")

\* an all-namespaces run that returned, with a matched Role and a RoleBinding
\* referring to it in the cluster
C3_Witness ==
    /\ CheckReturned
    /\ action.Namespace = ""
    /\ "b" \in roleNames
    /\ \E b \in Range(cluster.RoleBindings) :
          b.RoleRef.Kind = RoleKind /\ b.RoleRef.Name = "b"
    /\ clusterRoleBindings # <<>>

(***************************************************************************)
(* Properties of the policy rule matcher                                   *)
(***************************************************************************)
\* matches was applied to the rule mRules[1] for a resource action
MatchedResourceAction == mCall = "matches" /\ mAction.NonResourceURL = ""

\* matches was applied to the rule mRules[1] for a non-resource URL action
MatchedURLAction == mCall = "matches" /\ mAction.NonResourceURL # ""

\* the resource string of the harness Actions, which all resolve to pods
Needle == IF mAction.SubResource = "log" THEN "pods/log" ELSE "pods"

VerbListed == Range(mRules[1].Verbs) \cap {"*", mAction.Verb} # {}
GroupListed == Range(mRules[1].APIGroups) \cap {"*", mGr.Group} # {}
ResourceListed == Range(mRules[1].Resources) \cap {"*", Needle} # {}

\* C4: for a resource action and a rule without ResourceNames, matches is true
\* iff the verbs hold "*" or the action verb, the API groups hold "*" or the
\* resolved group, and the resources hold "*" or exactly resource[/subResource].
C4_ResourceRuleMatch ==
    (MatchedResourceAction /\ mRules[1].ResourceNames = <<>>) =>
        (mResult <=> (VerbListed /\ GroupListed /\ ResourceListed))

\* a rule for pods of the core group only, asked about pods of the group apps
C4_Witness ==
    /\ MatchedResourceAction
    /\ mRules[1] = PolicyRule(<<"get">>, <<"">>, <<"pods">>, <<>>, <<>>)
    /\ mAction.Verb = "get"
    /\ mAction.SubResource = ""
    /\ mGr.Group = "apps"
    /\ mResult = FALSE

\* C5 as amended: for an action without resource name, and verb, group and
\* resource matching, the rule matches iff it has no ResourceNames or its
\* ResourceNames hold the empty string.
C5_NoNameNeedsUnrestrictedRule ==
    (MatchedResourceAction /\ mAction.ResourceName = "" /\
     VerbListed /\ GroupListed /\ ResourceListed) =>
        (mResult <=> (mRules[1].ResourceNames = <<>> \/
                      "" \in Range(mRules[1].ResourceNames)))

\* C5 as stated: for an action without resource name, a rule matches whenever
\* verb, group and resource match, with or without ResourceNames.
C5_AsStated ==
    (MatchedResourceAction /\ mAction.ResourceName = "" /\
     VerbListed /\ GroupListed /\ ResourceListed) => mResult

\* get pods, without name, against a rule limited to the name x
C5_Witness ==
    /\ MatchedResourceAction
    /\ mAction.ResourceName = ""
    /\ VerbListed /\ GroupListed /\ ResourceListed
    /\ mRules[1].ResourceNames = <<"x">>
    /\ mResult = FALSE

\* C6 as amended: with verb, group and resource matching, the rule matches iff
\* its ResourceNames is empty or holds the action's resource name; so an action
\* without resource name does not match a rule whose ResourceNames is non-empty
\* and does not hold the empty string.
C6_ResourceNameCondition ==
    (MatchedResourceAction /\ VerbListed /\ GroupListed /\ ResourceListed) =>
        /\ mResult <=> (mRules[1].ResourceNames = <<>> \/
                        mAction.ResourceName \in Range(mRules[1].ResourceNames))
        /\ (mAction.ResourceName = "" /\ mRules[1].ResourceNames # <<>> /\
            "" \notin Range(mRules[1].ResourceNames)) => ~mResult

\* C6 as stated: the condition is "ResourceNames is empty or holds the action's
\* resource name", and an action without resource name matches no rule whose
\* ResourceNames is non-empty.
C6_AsStated ==
    (MatchedResourceAction /\ VerbListed /\ GroupListed /\ ResourceListed) =>
        /\ mResult <=> (mRules[1].ResourceNames = <<>> \/
                        mAction.ResourceName \in Range(mRules[1].ResourceNames))
        /\ (mAction.ResourceName = "" /\ mRules[1].ResourceNames # <<>>) => ~mResult

\* get pods/y against a rule limited to the name x
C6_Witness ==
    /\ MatchedResourceAction
    /\ VerbListed /\ GroupListed /\ ResourceListed
    /\ mAction.ResourceName = "y"
    /\ mRules[1].ResourceNames = <<"x">>
    /\ mResult = FALSE

\* C7: a rule matches an action with a sub-resource only if its resources hold
\* "*" or "<resource>/<subResource>", and an action without sub-resource only
\* if they hold "*" or the resource itself.
C7_SubResourceDiscipline ==
    MatchedResourceAction =>
        /\ (mAction.SubResource = "log" /\ mResult) =>
              Range(mRules[1].Resources) \cap {"*", "pods/log"} # {}
        /\ (mAction.SubResource = "" /\ mResult) =>
              Range(mRules[1].Resources) \cap {"*", "pods"} # {}

\* get pods with the sub-resource log against a rule that lists only pods
C7_Witness ==
    /\ MatchedResourceAction
    /\ mAction.SubResource = "log"
    /\ mAction.ResourceName = ""
    /\ mRules[1].Resources = <<"pods">>
    /\ mRules[1].ResourceNames = <<>>
    /\ VerbListed /\ GroupListed
    /\ mResult = FALSE

\* C8: for an action with a non-resource URL, matches is true iff the verbs
\* hold "*" or the action verb and the NonResourceURLs hold the action URL
\* itself; nothing else of the rule is read and no pattern is expanded.
C8_NonResourceURLExact ==
    MatchedURLAction =>
        (mResult <=> (VerbListed /\
                      mAction.NonResourceURL \in Range(mRules[1].NonResourceURLs)))

\* get /logs against a rule for the URLs /logs/* and *
C8_Witness ==
    /\ MatchedURLAction
    /\ mAction.NonResourceURL = "/logs"
    /\ VerbListed
    /\ mRules[1].NonResourceURLs = <<"/logs/*", "*">>
    /\ mResult = FALSE

\* C9: MatchesRole and MatchesClusterRole are true iff one rule of the role
\* matches the action by itself.
C9_SomeSingleRuleMatches ==
    mCall \in {"MatchesRole", "MatchesClusterRole"} =>
        (mResult <=> \E i \in 1..Len(mRules) : matches(mRules[i], mAction, mGr))

\* get pods against a role that grants get on services and list on pods
C9_Witness ==
    /\ mCall = "MatchesRole"
    /\ mRules = <<RuleGetServices, RuleListPods>>
    /\ mAction.Verb = "get"
    /\ mAction.NonResourceURL = ""
    /\ mResult = FALSE

(***************************************************************************)
(* Properties of WhoCan.CheckAPIAccess                                     *)
(***************************************************************************)
IsPrefix(p, q) == Len(p) <= Len(q) /\ \A i \in 1..Len(p) : p[i] = q[i]

\* the probes of the self-subject-access-reviews issued so far, in order
ProbesIssued ==
    LET reviews == SelectSeq(calls, LAMBDA c : c[1] = "create")
    IN  [i \in 1..Len(reviews) |-> <<reviews[i][3], reviews[i][4], reviews[i][5]>>]

\* the probes of a full CheckAPIAccess
ExpectedProbes ==
    IF action.Namespace # ""
    THEN << <<"list", "roles", action.Namespace>>,
            <<"list", "rolebindings", action.Namespace>> >>
    ELSE << <<"list", "namespaces", "">> >> \o
         [i \in 1..(2 * Len(cluster.Namespaces)) |->
             <<"list", IF i % 2 = 1 THEN "roles" ELSE "rolebindings",
               cluster.Namespaces[(i + 1) \div 2].Name>>]

WarningText(probe) ==
    IF probe[3] = ""
    THEN "The user is not allowed to " \o probe[1] \o " " \o probe[2]
    ELSE "The user is not allowed to " \o probe[1] \o " " \o probe[2] \o
         " in the " \o probe[3] \o " namespace"

\* one warning per denied probe, in probe order
ExpectedWarnings ==
    LET denied == SelectSeq(ExpectedProbes, LAMBDA c : c \in cluster.Denied)
    IN  [i \in 1..Len(denied) |-> WarningText(denied[i])]

\* CheckAPIAccess has returned its warnings without error
AccessReturned == pc \notin {"CheckAPIAccess", "IsAllowedTo", "failed"}

\* C10: the probes are issued in the order (list roles, ns), (list rolebindings,
\* ns) for one namespace, and (list namespaces), then the two of each listed
\* namespace in list order, for all namespaces; a CheckAPIAccess that returns
\* without error has issued them all and returns one warning per denied probe,
\* in probe order, none when no probe is denied.
C10_ProbesAndWarningsInOrder ==
    /\ IsPrefix(ProbesIssued, ExpectedProbes)
    /\ (action.Namespace = "" /\ ProbesIssued # <<>>) =>
          calls[1] = <<"list", "namespaces", "">>
    /\ AccessReturned =>
          /\ ProbesIssued = ExpectedProbes
          /\ warnings = ExpectedWarnings
          /\ (cluster.Denied \cap Range(ExpectedProbes) = {}) => warnings = <<>>

\* an all-namespaces CheckAPIAccess over the namespaces n3, n1 that returned
\* three warnings
C10_Witness ==
    /\ pc = "validate"
    /\ action.Namespace = ""
    /\ cluster.Namespaces = <<Namespace("n3", NamespaceActive),
                              Namespace("n1", NamespaceActive)>>
    /\ warnings = <<"The user is not allowed to list namespaces",
                    "The user is not allowed to list rolebindings in the n3 namespace",
                    "The user is not allowed to list roles in the n1 namespace">>

(***************************************************************************)
(* Failures of the pre-flight check and of Check                           *)
(***************************************************************************)
ListNamespacesCheck == <<"list", "namespaces", "">>

\* CheckAPIAccess is over: it returned its warnings, or an error
AccessOver == pc \notin {"ActionFrom", "CheckAPIAccess", "IsAllowedTo"}

\* C11: with --all-namespaces and a caller who is denied list namespaces (by
\* the self-access review and by the namespace list call alike), a
\* CheckAPIAccess in which no probe has a transport error returns no error and
\* a warning list holding "The user is not allowed to list namespaces", and the
\* command goes on to Check.
C11_AsStated ==
    (action.AllNamespaces /\ ListNamespacesCheck \in cluster.Denied /\
     AccessOver /\ err # TransportError) =>
        /\ pc # "failed"
        /\ "The user is not allowed to list namespaces" \in Range(warnings)

\* the review calls of the log, and the other calls
IsReview(call) == call[1] = "create" /\ call[2] = "selfsubjectaccessreviews"

\* CheckAPIAccess ended with an error after it had issued a probe
ProbeAborted == pc = "failed" /\ ProbesIssued # <<>>

\* C12: when a probe has a transport error CheckAPIAccess returns that error
\* unchanged and no warnings, the failed probe is the last call of the run (no
\* further probe, nothing of Check), and nothing happens afterwards; a step in
\* which a probe is answered allowed=false appends a warning and leaves the
\* loop running without error.
C12_ProbeErrorAborts ==
    /\ [](ProbeAborted =>
            /\ err = TransportError
            /\ warnings = <<>>
            /\ IsReview(calls[Len(calls)])
            /\ Len(ProbesIssued) <= Len(ExpectedProbes)
            /\ \A i \in 1..Len(calls) :
                  IsReview(calls[i]) \/ calls[i] = ListCall("namespaces", ""))
    /\ [][/\ pc = "failed" => UNCHANGED vars
          /\ (pc = "IsAllowedTo" /\ pc' = "failed") =>
                (err' = TransportError /\ warnings' = <<>>)
          /\ (pc = "IsAllowedTo" /\ Len(warnings') > Len(warnings)) =>
                /\ Head(checks) \in cluster.Denied
                /\ pc' = "IsAllowedTo"
                /\ err' = ""
                /\ checks' = Tail(checks)]_vars

\* the first probe was denied and the second had a transport error, with
\* probes left to run: the warning of the first is gone
C12_Witness ==
    /\ ProbeAborted
    /\ Len(ProbesIssued) = 2
    /\ ProbesIssued[1] \in cluster.Denied
    /\ Len(ExpectedProbes) > 2
    /\ warnings = <<>>
    /\ err = TransportError

\* C13: when a list call of Check fails, Check returns the error and two empty
\* binding lists.
C13_AsStated ==
    (pc = "done" /\ err # "") =>
        (roleBindings = <<>> /\ clusterRoleBindings = <<>>)

(***************************************************************************)
(* Arguments and validation                                                *)
(***************************************************************************)
ArgumentsError ==
    "you must specify two or three arguments: verb, resource, and optional resourceName"

ExclusionError == "--subresource cannot be used with NONRESOURCEURL"

\* an API call of any kind is in the log
IssuedAPICall == calls # <<>>

\* C14: a command that fails with the arguments error or with the error of the
\* --subresource / non-resource URL exclusion has issued no API call.
C14_AsStated ==
    (pc \in {"failed", "done"} /\
     (err = ArgumentsError \/ err = ExclusionError \/
      err = "validation: " \o ExclusionError)) => ~IssuedAPICall

\* ActionFrom has returned an Action
ActionMade == pc # "ActionFrom" /\ Len(args) >= 2

\* WhoCan.validate has run on the Action
Validated == ActionMade /\ pc \notin {"CheckAPIAccess", "IsAllowedTo", "failed", "validate"}

Excluded == action.NonResourceURL # "" /\ action.SubResource # ""

\* the errors namespaceValidator.Validate can return for name
NamespaceCauses(name) ==
    {"\"" \o name \o "\" not found", "getting namespace: " \o TransportError} \cup
    {"invalid status: " \o cluster.Namespaces[i].Phase : i \in NamespaceNamed(name)}

NamespaceGets == SelectSeq(calls, LAMBDA c : c[1] = "get" /\ c[2] = "namespaces")

\* the namespace of the Action is one the validator rejects when it can read it
NotActive(name) ==
    name # "" /\ \A i \in NamespaceNamed(name) : cluster.Namespaces[i].Phase # NamespaceActive

\* C15 as amended: Check returns a validation error with the prefix
\* "validation: " and nothing else added: the text of the exclusion, found
\* without a call of the namespace validator, or "validating namespace: "
\* followed by the validator's error.
C15_ValidationErrorPrefixed ==
    Validated =>
        /\ Excluded =>
              /\ pc = "done"
              /\ err = "validation: " \o ExclusionError
              /\ NamespaceGets = <<>>
        /\ (~Excluded /\ NotActive(action.Namespace)) =>
              /\ pc = "done"
              /\ err \in {"validation: validating namespace: " \o c :
                             c \in NamespaceCauses(action.Namespace)}

\* C15 as stated: the validation error is returned by Check as it is.
C15_AsStated ==
    Validated =>
        /\ Excluded =>
              /\ pc = "done"
              /\ err = ExclusionError
              /\ NamespaceGets = <<>>
        /\ (~Excluded /\ NotActive(action.Namespace)) =>
              /\ pc = "done"
              /\ err \in {"validating namespace: " \o c :
                             c \in NamespaceCauses(action.Namespace)}

\* Check has rejected the namespace n3, which does not exist
C15_Witness ==
    /\ Validated
    /\ action.Namespace = "n3"
    /\ err = "validation: validating namespace: \"n3\" not found"
    /\ Len(NamespaceGets) = 1

\* C16: --all-namespaces gives the empty Namespace whatever --namespace holds,
\* else a non-empty --namespace is taken, both without reading the current
\* context; else the context's namespace is taken, and its error returned as
\* "getting namespace from current context: <cause>". AllNamespaces implies an
\* empty Namespace.
C16_NamespacePrecedence ==
    ActionMade =>
        /\ flags.allNamespaces =>
              /\ action.Namespace = "" /\ action.AllNamespaces
              /\ clientConfig.reads = 0
        /\ (~flags.allNamespaces /\ flags.namespace # "") =>
              /\ action.Namespace = flags.namespace
              /\ clientConfig.reads = 0
        /\ (~flags.allNamespaces /\ flags.namespace = "") =>
              /\ action.Namespace = clientConfig.namespace
              /\ clientConfig.reads = 1
              /\ clientConfig.err # "" =>
                    /\ pc = "failed"
                    /\ err = "getting namespace from current context: " \o clientConfig.err
              /\ clientConfig.err = "" => ~(pc = "failed" /\ calls = <<>>)
        /\ action.AllNamespaces => action.Namespace = ""
        /\ action.AllNamespaces = flags.allNamespaces

\* --all-namespaces given together with --namespace n1
C16_Witness ==
    /\ ActionMade
    /\ flags.allNamespaces
    /\ flags.namespace = "n1"
    /\ action.Namespace = ""
    /\ pc = "done"

\* C17 as amended: an Action of ActionFrom has a non-empty NonResourceURL
\* exactly when the second argument starts with "/"; the URL is then the whole
\* argument, Resource and ResourceName are empty, and SubResource is the value
\* of --subresource (empty only when the flag is not given).
C17_URLActionHasNoResource ==
    ActionMade =>
        /\ action.NonResourceURL # "" <=> (Len(args[2]) > 0 /\ args[2][1] = "/")
        /\ action.NonResourceURL # "" =>
              /\ action.NonResourceURL = str(args[2], 1)
              /\ action.Resource = ""
              /\ action.ResourceName = ""
        /\ action.SubResource = flags.subResource

\* C17 as stated: an Action with a non-empty NonResourceURL has empty
\* Resource, SubResource and ResourceName.
C17_AsStated ==
    (ActionMade /\ action.NonResourceURL # "") =>
        /\ action.Resource = ""
        /\ action.SubResource = ""
        /\ action.ResourceName = ""

\* get /logs with --subresource log
C17_Witness ==
    /\ ActionMade
    /\ action.NonResourceURL = "/logs"
    /\ action.SubResource = "log"
    /\ action.Resource = ""

\* the errors Check can return for a namespace the validator rejects
ValidationErrors(name) ==
    {"validation: validating namespace: " \o c : c \in NamespaceCauses(name)}

Wrapped(cause) == "validation: validating namespace: " \o cause

\* C18: for the empty name the validation succeeds without a namespace get;
\* otherwise there is one get of that name, and the error is "<name>" not found
\* for a namespace the server does not have, invalid status: <phase> for one
\* whose phase is not Active, getting namespace: <cause> for another error, and
\* none only for a namespace whose phase is Active.
C18_NamespaceValidation ==
    (Validated /\ ~Excluded) =>
        LET name == action.Namespace
            failed == pc = "done" /\ err \in ValidationErrors(name)
        IN  /\ name = "" => (NamespaceGets = <<>> /\ ~failed)
            /\ name # "" => NamespaceGets = <<GetCall("namespaces", name)>>
            /\ (name # "" /\ NamespaceNamed(name) = {}) =>
                  (pc = "done" /\
                   err \in {Wrapped("\"" \o name \o "\" not found"),
                            Wrapped("getting namespace: " \o TransportError)})
            /\ \A i \in NamespaceNamed(name) :
                  IF cluster.Namespaces[i].Phase # "Active"
                  THEN pc = "done" /\
                       err \in {Wrapped("invalid status: " \o cluster.Namespaces[i].Phase),
                                Wrapped("getting namespace: " \o TransportError)}
                  ELSE failed => err = Wrapped("getting namespace: " \o TransportError)

\* the namespace n2 exists and is terminating
C18_Witness ==
    /\ Validated
    /\ action.Namespace = "n2"
    /\ err = "validation: validating namespace: invalid status: Terminating"
    /\ NamespaceGets = <<GetCall("namespaces", "n2")>>

(***************************************************************************)
(* Properties of the resource resolver                                     *)
(***************************************************************************)
\* the plural a resource argument stands for on the server of the tests
PluralOf ==
    [r \in {"pods", "po", "services", "deployments", "deployments.extensions",
            "podsecuritypolicies", "psp"} |->
        CASE r \in {"pods", "po"} -> "pods"
          [] r = "services" -> "services"
          [] r \in {"deployments", "deployments.extensions"} -> "deployments"
          [] OTHER -> "podsecuritypolicies"]

GroupOf ==
    [p \in {"pods", "services", "deployments", "podsecuritypolicies"} |->
        CASE p = "deployments" -> "extensions"
          [] p = "podsecuritypolicies" -> "policy"
          [] OTHER -> ""]

\* the verbs discovery advertises, by index key, and the way %v prints them
Advertised ==
    [k \in {"pods", "pods/log", "services", "deployments", "deployments/scale",
            "podsecuritypolicies"} |->
        CASE k = "pods" -> [verbs |-> {"list", "create", "delete"},
                            text |-> "[list create delete]"]
          [] k = "pods/log" -> [verbs |-> {"get"}, text |-> "[get]"]
          [] k = "services" -> [verbs |-> {"list", "delete"}, text |-> "[list delete]"]
          [] k = "deployments/scale" -> [verbs |-> {"update", "patch"},
                                         text |-> "[update patch]"]
          [] OTHER -> [verbs |-> {"list", "get"}, text |-> "[list get]"]]

\* Resolve has been called for the resource of the Action
Resolved == pc # "Resolve" /\ action.Resource \notin {"", "*"}

Mapped == action.Resource \in DOMAIN PluralOf

\* the index key of the Action: <plural> or <plural>/<subResource>
KeyOf ==
    IF action.SubResource # ""
    THEN PluralOf[action.Resource] \o "/" \o action.SubResource
    ELSE PluralOf[action.Resource]

Resolves == Mapped /\ KeyOf \in DOMAIN Advertised

\* the name of the Action's resource in the error texts
TypedName ==
    IF action.SubResource # ""
    THEN action.Resource \o "/" \o action.SubResource
    ELSE action.Resource

NoSuchType ==
    "resolving resource: the server doesn't have a resource type \"" \o TypedName \o "\""

C21_WildcardResource ==
    (pc # "Resolve" /\ action.Resource = "*") =>
        /\ err = ""
        /\ gr = [Group |-> "", Resource |-> "*"]
        /\ pc = "getRolesFor"
        /\ ResourceFor("*") = <<>>

\* the verb eat, which no resource advertises, on the sub-resource logz of "*"
C21_Witness ==
    /\ pc = "getRolesFor"
    /\ action.Resource = "*"
    /\ action.Verb = "eat"
    /\ action.SubResource = "logz"
    /\ gr = [Group |-> "", Resource |-> "*"]

(***************************************************************************)
(* The cluster is only read; the binding filters                           *)
(***************************************************************************)
\* C22: every API call of a run is a get, a list, or the post of a
\* self-subject-access-review, and the content of the cluster is at every
\* moment what it was when the run began.
C22_ReadOnly ==
    /\ \A i \in 1..Len(calls) : calls[i][1] \in {"get", "list"} \/ IsReview(calls[i])
    /\ history = <<cluster>>

\* a run for pods in n1 that ended well after eight calls: two reviews, the
\* namespace get, the discovery read and four lists
C22_Witness ==
    /\ CheckReturned
    /\ Len(calls) = 8
    /\ \E i \in 1..Len(calls) : IsReview(calls[i])
    /\ \E i \in 1..Len(calls) : calls[i] = GetCall("namespaces", "n1")
    /\ \E i \in 1..Len(calls) : calls[i] = ListCall("clusterrolebindings", "")
    /\ roleBindings # <<>>

\* C23: getClusterRoleBindings returns exactly the listed ClusterRoleBindings
\* whose RoleRef.name is a matched ClusterRole name, in list order; a name that
\* is only a matched Role name brings no ClusterRoleBinding in.
C23_ClusterRoleBindingsByClusterRoleName ==
    CheckReturned =>
        /\ clusterRoleBindings =
              SelectSeq(cluster.ClusterRoleBindings,
                        LAMBDA b : b.RoleRef.Name \in clusterRoleNames)
        /\ \A b \in Range(clusterRoleBindings) : GrantingClusterRole(b.RoleRef.Name)

\* the Role a of n1 matches, the ClusterRole a does not, and the
\* ClusterRoleBinding that refers to a is not returned
C23_Witness ==
    /\ CheckReturned
    /\ "a" \in roleNames
    /\ "a" \notin clusterRoleNames
    /\ ClusterRoleBinding("crb-z", ClusterRoleKind, "a") \in Range(cluster.ClusterRoleBindings)
    /\ clusterRoleBindings = <<>>

\* C24 as amended: every returned RoleBinding has the RoleRef kind Role or
\* ClusterRole, whatever kinds the list delivers; of a ClusterRoleBinding only
\* the RoleRef name is read, so every listed one whose name is a matched
\* ClusterRole name is returned, of whatever kind.
C24_KindReadForRoleBindingsOnly ==
    /\ \A b \in Range(roleBindings) : b.RoleRef.Kind \in {RoleKind, ClusterRoleKind}
    /\ CheckReturned =>
          \A b \in Range(cluster.ClusterRoleBindings) :
              b.RoleRef.Name \in clusterRoleNames => b \in Range(clusterRoleBindings)

\* C24 as stated: every returned ClusterRoleBinding has the RoleRef kind
\* ClusterRole and every returned RoleBinding the kind Role or ClusterRole.
C24_AsStated ==
    /\ \A b \in Range(clusterRoleBindings) : b.RoleRef.Kind = ClusterRoleKind
    /\ \A b \in Range(roleBindings) : b.RoleRef.Kind \in {RoleKind, ClusterRoleKind}

\* a ClusterRoleBinding of kind Role is returned, and a listed RoleBinding of
\* kind Group that names a matched role is not
C24_Witness ==
    /\ CheckReturned
    /\ ClusterRoleBinding("crb-y", RoleKind, "a") \in Range(clusterRoleBindings)
    /\ RoleBinding("n1", "rb-x", "Group", "a") \in Range(ListRoleBindings("n1"))
    /\ action.Namespace = "n1"
    /\ "a" \in roleNames

\* C25 as amended: a rule without verbs matches no action; a rule without
\* resources or without API groups matches no resource action, and matches a
\* non-resource URL action exactly when its verbs and NonResourceURLs do.
C25_EmptyLists ==
    mCall = "matches" =>
        /\ mRules[1].Verbs = <<>> => ~mResult
        /\ (MatchedResourceAction /\
            (mRules[1].Resources = <<>> \/ mRules[1].APIGroups = <<>>)) => ~mResult
        /\ (MatchedURLAction /\
            (mRules[1].Resources = <<>> \/ mRules[1].APIGroups = <<>>)) =>
              (mResult <=> (VerbListed /\
                            mAction.NonResourceURL \in Range(mRules[1].NonResourceURLs)))

\* C25 as stated: a rule without verbs, without resources or without API
\* groups matches no action.
C25_AsStated ==
    (mCall = "matches" /\
     (mRules[1].Verbs = <<>> \/ mRules[1].Resources = <<>> \/
      mRules[1].APIGroups = <<>>)) => ~mResult

\* get /logs against a rule of the verb get and the URL /logs that names no
\* resource and no API group
C25_Witness ==
    /\ MatchedURLAction
    /\ mRules[1] = PolicyRule(<<"get">>, <<>>, <<>>, <<>>, <<"/logs">>)
    /\ mAction.Verb = "get"
    /\ mAction.NonResourceURL = "/logs"
    /\ mResult = TRUE

(***************************************************************************)
(* The steps of Check                                                      *)
(***************************************************************************)
\* the calls of Check: all but the calls of the pre-flight check
CheckCalls ==
    SelectSeq(calls, LAMBDA c : ~IsReview(c) /\ c # <<"list", "namespaces", "">>)

\* the calls of a Check in which no step fails
ExpectedCheckCalls ==
    (IF action.Namespace # "" THEN << <<"get", "namespaces", action.Namespace>> >>
     ELSE <<>>) \o
    (IF action.Resource # "" THEN << <<"get", "discovery", "">> >> ELSE <<>>) \o
    << <<"list", "roles", action.Namespace>>, <<"list", "clusterroles", "">> >> \o
    (IF action.Namespace # "" THEN << <<"list", "rolebindings", action.Namespace>> >>
     ELSE <<>>) \o
    << <<"list", "clusterrolebindings", "">> >>

\* the errors of Resolve on the command lines of SpecCommand
ResolveErrors ==
    {"the server doesn't have a resource type \"bees\"",
     "the server doesn't have a resource type \"bees/log\"",
     "the \"pods\" resource does not support the \"get\" verb, only [list create delete]",
     "the \"pods\" resource does not support the \"list\" verb, only [get]"}

\* the error Check returns when the step that issued call fails
StepErrors(call) ==
    CASE call[2] = "namespaces" -> ValidationErrors(action.Namespace)
      [] call[2] = "discovery" -> {"resolving resource: " \o e : e \in ResolveErrors}
      [] call[2] = "roles" -> {"getting Roles: " \o TransportError}
      [] call[2] = "clusterroles" -> {"getting ClusterRoles: " \o TransportError}
      [] call[2] = "rolebindings" -> {"getting RoleBindings: " \o TransportError}
      [] OTHER -> {"getting ClusterRoleBindings: " \o TransportError}

\* C26: the calls of Check follow the order validate, resolve (only for an
\* Action with a Resource), Roles, ClusterRoles, RoleBindings,
\* ClusterRoleBindings; a Check that ends without error has made them all, and
\* one that ends with an error has stopped at the failing step, whose wrapped
\* error it returns.
C26_StepsInOrder ==
    ActionMade =>
        /\ IsPrefix(CheckCalls, ExpectedCheckCalls)
        /\ action.Resource = "" =>
              \A i \in 1..Len(calls) : calls[i] # <<"get", "discovery", "">>
        /\ (pc = "done" /\ err = "") => CheckCalls = ExpectedCheckCalls
        /\ (pc = "done" /\ err # "" /\ ~Excluded) =>
              /\ CheckCalls # <<>>
              /\ err \in StepErrors(CheckCalls[Len(CheckCalls)])
        /\ (pc = "done" /\ err # "" /\ Excluded) => CheckCalls = <<>>

\* the ClusterRoles list failed: four steps were made and the two binding
\* lists were not
C26_Witness ==
    /\ ActionMade
    /\ pc = "done"
    /\ err = "getting ClusterRoles: transport error"
    /\ action.Resource = "pods"
    /\ Len(CheckCalls) = 4
    /\ Len(ExpectedCheckCalls) = 6

(***************************************************************************)
(* Check beside other clients                                              *)
(***************************************************************************)
GrantsIn(rules) == \E i \in 1..Len(rules) : matches(rules[i], action, gr)

GrantingRoleIn(cl, ns, name) ==
    \E r \in Range(cl.Roles) : r.Namespace = ns /\ r.Name = name /\ GrantsIn(r.Rules)

GrantingClusterRoleIn(cl, name) ==
    \E r \in Range(cl.ClusterRoles) : r.Name = name /\ GrantsIn(r.Rules)

\* the RoleRef of b names a role that grants the action in cl
GrantedIn(cl, b) ==
    \/ b.RoleRef.Kind = RoleKind /\ GrantingRoleIn(cl, action.Namespace, b.RoleRef.Name)
    \/ b.RoleRef.Kind = ClusterRoleKind /\ GrantingClusterRoleIn(cl, b.RoleRef.Name)

\* what Check returns against the one content cl
RoleBindingsIn(cl) ==
    SelectSeq(cl.RoleBindings,
              LAMBDA b : b.Namespace = action.Namespace /\ GrantedIn(cl, b))

ClusterRoleBindingsIn(cl) ==
    SelectSeq(cl.ClusterRoleBindings,
              LAMBDA b : GrantingClusterRoleIn(cl, b.RoleRef.Name))

\* C27 as amended: against a cluster no other client writes to during the
\* call, Check returns the bindings of that one content; when others write
\* between its list calls, every binding it returns existed in some content of
\* the cluster and names a role that granted the action in some content, which
\* need not be the same.
C27_EachListAtItsMoment ==
    CheckReturned =>
        /\ Len(history) = 1 =>
              /\ roleBindings = RoleBindingsIn(cluster)
              /\ clusterRoleBindings = ClusterRoleBindingsIn(cluster)
        /\ \A b \in Range(roleBindings) :
              /\ \E i \in 1..Len(history) : b \in Range(history[i].RoleBindings)
              /\ \E j \in 1..Len(history) : GrantedIn(history[j], b)
        /\ \A b \in Range(clusterRoleBindings) :
              /\ \E i \in 1..Len(history) : b \in Range(history[i].ClusterRoleBindings)
              /\ \E j \in 1..Len(history) : GrantingClusterRoleIn(history[j], b.RoleRef.Name)

\* C27 as stated: the bindings Check returns are those of one content the
\* cluster had during the call, and every returned binding names a role that
\* granted the action in a content in which the binding existed.
C27_AsStated ==
    CheckReturned =>
        /\ \E i \in 1..Len(history) :
              /\ roleBindings = RoleBindingsIn(history[i])
              /\ clusterRoleBindings = ClusterRoleBindingsIn(history[i])
        /\ \A b \in Range(roleBindings) :
              \E i \in 1..Len(history) :
                  b \in Range(history[i].RoleBindings) /\ GrantedIn(history[i], b)

\* the Role a granted the action when the Roles were listed, was changed, and
\* the RoleBinding to it was created afterwards: the binding is returned
C27_Witness ==
    /\ CheckReturned
    /\ Len(history) = 3
    /\ Len(roleBindings) = 1
    /\ \A i \in 1..Len(history) :
          ~(roleBindings[1] \in Range(history[i].RoleBindings) /\
            GrantedIn(history[i], roleBindings[1]))

(***************************************************************************)
(* Order of the results, the two name sets, non-resource URLs              *)
(***************************************************************************)
\* the names of the bindings, in ascending order
BindingNames == <<"crb-x", "crb-y", "crb-z", "rb-v", "rb-w", "rb-x", "rb-y", "rb-z">>

NameRank(name) == CHOOSE i \in 1..Len(BindingNames) : BindingNames[i] = name

SortedByName(q) ==
    \A i, j \in 1..Len(q) : i < j => NameRank(q[i].Name) <= NameRank(q[j].Name)

\* C28: the RoleBindings and the ClusterRoleBindings Check returns are sorted
\* by name, in whatever order the list calls deliver them.
C28_AsStated ==
    CheckReturned => (SortedByName(roleBindings) /\ SortedByName(clusterRoleBindings))

\* Check has computed both name sets
NamesComputed == pc \in {"getRoleBindings", "getClusterRoleBindings"} \/ CheckReturned

\* C29 as amended: the matched Role names are the names of the Roles of the
\* namespace (of every namespace, for all namespaces) with a matching rule,
\* the matched ClusterRole names those of the ClusterRoles with a matching
\* rule; the two sets are kept apart and may hold the same name.
C29_NameSetsPerKind ==
    NamesComputed =>
        /\ roleNames =
              {r.Name : r \in {x \in Range(cluster.Roles) :
                                  /\ action.Namespace \in {"", x.Namespace}
                                  /\ Grants(x.Rules)}}
        /\ clusterRoleNames =
              {r.Name : r \in {x \in Range(cluster.ClusterRoles) : Grants(x.Rules)}}

\* C29 as stated: no name is a matched Role name and a matched ClusterRole name.
C29_AsStated == roleNames \cap clusterRoleNames = {}

\* the Role a of n1 and the ClusterRole a both grant the action
C29_Witness ==
    /\ CheckReturned
    /\ action.Namespace = "n1"
    /\ "a" \in roleNames
    /\ "a" \in clusterRoleNames

\* the rules grant the verb and the URL of the action
GrantsURL(rules) ==
    \E i \in 1..Len(rules) :
        /\ Range(rules[i].Verbs) \cap {"*", action.Verb} # {}
        /\ action.NonResourceURL \in Range(rules[i].NonResourceURLs)

\* C30: for a non-resource URL and a namespace, nothing is resolved and Check
\* returns the RoleBindings of the namespace that refer to a Role of it, or to
\* a ClusterRole, with a rule for the verb and the URL; the printer leaves the
\* section of the RoleBindings out.
C30_URLActionKeepsRoleBindings ==
    (CheckReturned /\ action.NonResourceURL # "" /\ action.Namespace # "") =>
        /\ gr = NoGR
        /\ roleBindings =
              SelectSeq(cluster.RoleBindings,
                        LAMBDA b :
                            /\ b.Namespace = action.Namespace
                            /\ \/ /\ b.RoleRef.Kind = RoleKind
                                  /\ \E r \in Range(cluster.Roles) :
                                        /\ r.Namespace = action.Namespace
                                        /\ r.Name = b.RoleRef.Name
                                        /\ GrantsURL(r.Rules)
                               \/ /\ b.RoleRef.Kind = ClusterRoleKind
                                  /\ \E r \in Range(cluster.ClusterRoles) :
                                        r.Name = b.RoleRef.Name /\ GrantsURL(r.Rules))
        /\ ~printsRoleBindings(action)

\* get /logs in n1: the RoleBinding to the ClusterRole a is returned
C30_Witness ==
    /\ CheckReturned
    /\ action.NonResourceURL = "/logs"
    /\ action.Namespace = "n1"
    /\ RoleBinding("n1", "rb-y", ClusterRoleKind, "a") \in Range(roleBindings)
    /\ ~printsRoleBindings(action)

====
